---- MODULE Spec2Model ----
(***************************************************************************)
(* Model of the xacro command-line front end:                              *)
(*   src/xacro/cli.py       load_mappings, process_args, colorize, message *)
(*   src/xacro/__init__.py  process (the capturing entrypoint)             *)
(*                                                                         *)
(* A command-line token is a sequence of one-character strings, so that    *)
(* substring search, split and strip are computed and not assumed.         *)
(***************************************************************************)
EXTENDS Integers, Sequences, FiniteSets, TLC

VARIABLES
    \* ---- load_mappings called on its own (SpecRemap) ----
    largv,          \* the argv handed to load_mappings
    li,             \* index of the next token the for-loop visits
    lmappings,      \* the dict being built
    lpc,            \* "loop" | "returned" | "RuntimeError"
    lerr,           \* the token named by the RuntimeError, <<>> when none
    \* ---- process_args (Spec) ----
    argv,           \* the raw argument vector
    require_input,  \* the require_input parameter
    pc,             \* position inside process_args
    mappings,       \* local `mappings`
    filtered_args,  \* local `filtered_args`
    options,        \* the optparse Values object
    pos_args,       \* local `pos_args`
    stderr,         \* what has been printed to sys.stderr
    errtoken,       \* token named by the RuntimeError, <<>> when none
    result,         \* the returned (options, input) pair, or None
    \* ---- process, the capturing entrypoint (SpecSeq, SpecConc) ----
    concurrent,     \* TRUE: invocations may overlap (threads)
    stdout,         \* the global sys.stdout binding: a stream id
    streams,        \* stream id -> [buf, pos]
    cpc,            \* invocation -> position inside process()
    old,            \* invocation -> local `old`
    written,        \* invocation -> number of writes its engine call has made
    captured        \* invocation -> the returned string, or None

remapVars == <<largv, li, lmappings, lpc, lerr>>
cliVars == <<argv, require_input, pc, mappings, filtered_args, options,
             pos_args, stderr, errtoken, result>>
capVars == <<concurrent, stdout, streams, cpc, old, written, captured>>
vars == <<remapVars, cliVars, capVars>>

None == "None"

\* the stream sys.stdout is bound to when the program starts
Orig == 0

(***************************************************************************)
(* Bounds of the model.                                                    *)
(***************************************************************************)
MaxSideLen == 2      \* longest source side of a generated remap token
MaxRemapArgs == 2    \* longest argv handed to load_mappings on its own
MaxArgs == 3         \* longest argv handed to process_args
MaxCalls == 2        \* number of process() invocations
MaxWrites == 2       \* writes the engine calls make at most, all together

(***************************************************************************)
(* Strings as character sequences.                                         *)
(***************************************************************************)
REMAP == <<":", "=">>

\* the characters str.strip() removes, those str.isspace() holds for: of
\* the code points a string constant can hold (up to U+00FF), U+0009 to
\* U+000D, U+001C to U+001F, U+0020, U+0085 and U+00A0
Whitespace ==
    {"\t", "\n", "", "\f", "\r", "", "", "", "", " ", "", " "}

\* pat occurs in s starting at index i
OccursAt(s, i, pat) ==
    /\ i >= 1
    /\ i + Len(pat) - 1 <= Len(s)
    /\ \A k \in 1..Len(pat) : s[i + k - 1] = pat[k]

\* Python: pat in s
Contains(s, pat) == \E i \in 1..Len(s) : OccursAt(s, i, pat)

\* Python: s.find(pat) + 1, 0 when absent
Find(s, pat) ==
    IF Contains(s, pat)
    THEN CHOOSE i \in 1..Len(s) :
            /\ OccursAt(s, i, pat)
            /\ \A j \in 1..(i - 1) : ~OccursAt(s, j, pat)
    ELSE 0

\* a split at the first occurrence of sep only: s.split(sep, 1)
SplitOnce(s, sep) ==
    LET i == Find(s, sep) IN
    IF i = 0 THEN <<s>>
    ELSE <<SubSeq(s, 1, i - 1), SubSeq(s, i + Len(sep), Len(s))>>

\* Python: s.split(sep), the list of the parts between all occurrences of sep
RECURSIVE Split(_, _)
Split(s, sep) ==
    LET i == Find(s, sep) IN
    IF i = 0 THEN <<s>>
    ELSE <<SubSeq(s, 1, i - 1)>> \o Split(SubSeq(s, i + Len(sep), Len(s)), sep)

\* the leading characters of s that are in chars removed
RECURSIVE LStrip(_, _)
LStrip(s, chars) ==
    IF s # <<>> /\ Head(s) \in chars THEN LStrip(Tail(s), chars) ELSE s

\* the trailing characters of s that are in chars removed
RECURSIVE RStrip(_, _)
RStrip(s, chars) ==
    IF s # <<>> /\ s[Len(s)] \in chars
    THEN RStrip(SubSeq(s, 1, Len(s) - 1), chars) ELSE s

\* Python: s.strip()
Strip(s) == RStrip(LStrip(s, Whitespace), Whitespace)

\* all sequences over S of length at most n
RECURSIVE SeqsUpTo(_, _)
SeqsUpTo(S, n) ==
    IF n = 0 THEN {<<>>}
    ELSE LET shorter == SeqsUpTo(S, n - 1)
         IN shorter \cup {Append(s, x) : s \in {t \in shorter : Len(t) = n - 1}, x \in S}

(***************************************************************************)
(* load_mappings                                                           *)
(***************************************************************************)
\* [x.strip() for x in arg.split(REMAP)]
SplitRemap(arg) ==
    LET parts == Split(arg, REMAP) IN [k \in 1..Len(parts) |-> Strip(parts[k])]

\* `src, dst = [...]` raises ValueError unless the list has exactly two items;
\* `except Exception` turns it into the RuntimeError
UnpackFails(arg) == Len(SplitRemap(arg)) # 2

\* len(src) > 1 and src[0] == "_" and src[1] != "_"
IsParamAssignment(src) == Len(src) > 1 /\ src[1] = "_" /\ src[2] # "_"

\* mappings[src] = dst
DictSet(m, k, v) == [x \in DOMAIN m \cup {k} |-> IF x = k THEN v ELSE m[x]]

EmptyDict == [x \in {} |-> <<>>]

\* one iteration of the for-loop body on a token that does not raise
MapToken(m, arg) ==
    IF ~Contains(arg, REMAP) THEN m
    ELSE LET src == SplitRemap(arg)[1]
             dst == SplitRemap(arg)[2]
         IN IF src # <<>> /\ dst # <<>>
            THEN IF IsParamAssignment(src) THEN m ELSE DictSet(m, src, dst)
            ELSE m

\* the token raises the "Invalid remapping argument" RuntimeError
TokenRaises(arg) == Contains(arg, REMAP) /\ UnpackFails(arg)

\* load_mappings(argv) as a whole: [ok, mappings, err]
RECURSIVE LoadFrom(_, _, _)
LoadFrom(args, i, m) ==
    IF i > Len(args) THEN [ok |-> TRUE, mappings |-> m, err |-> <<>>]
    ELSE IF TokenRaises(args[i])
         THEN [ok |-> FALSE, mappings |-> None, err |-> args[i]]
         ELSE LoadFrom(args, i + 1, MapToken(m, args[i]))

load_mappings(args) == LoadFrom(args, 1, EmptyDict)

(***************************************************************************)
(* Diagnostics: colorize and message.                                      *)
(***************************************************************************)
\* _ansi = {"red": 91, "yellow": 93}
Ansi == [red |-> 91, yellow |-> 93]

\* colorize(msg, color, file, alt_text); isatty is what file.isatty() answers.
\* f"{alt_text:s}{msg:s}" raises TypeError when alt_text is None.
colorize(msg, color, isatty, alt_text) ==
    IF color \in DOMAIN Ansi /\ isatty
    THEN [ok |-> TRUE, text |-> <<"ESC", Ansi[color], msg>>]
    ELSE IF alt_text = None
         THEN [ok |-> FALSE, text |-> "TypeError"]
         ELSE [ok |-> TRUE, text |-> <<alt_text, msg>>]

\* message(msg, **kwargs): alt_text and color default to None
message(msg, kwargs, isatty) ==
    LET alt_text == IF "alt_text" \in DOMAIN kwargs THEN kwargs.alt_text ELSE None
        color == IF "color" \in DOMAIN kwargs THEN kwargs.color ELSE None
    IN colorize(msg, color, isatty, alt_text)

NoKwargs == [x \in {} |-> None]

\* ColoredOptionParser.error: colorize(message, "red") with the default
\* alt_text "", then optparse prints the usage and the error and exits 2
ParserError(msg, isatty) ==
    <<"usage", colorize(msg, "red", isatty, "").text>>

(***************************************************************************)
(* The option parser process_args configures (optparse.OptionParser).      *)
(***************************************************************************)
LongNames ==
    [deps      |-> <<"-", "-", "d", "e", "p", "s">>,
     inorder   |-> <<"-", "-", "i", "n", "o", "r", "d", "e", "r">>,
     verbosity |-> <<"-", "-", "v", "e", "r", "b", "o", "s", "i", "t", "y">>,
     help      |-> <<"-", "-", "h", "e", "l", "p">>]

ShortNames == [o |-> "o", i |-> "inorder", q |-> "q", v |-> "v", h |-> "help"]

\* options declared with a value: -o FILE and --verbosity level
TakesValue(opt) == opt \in {"o", "verbosity"}

\* parser.set_defaults(just_deps=False, verbosity=1); the other dests are None.
\* in_order is only ever None or True and only tested for truth: FALSE stands
\* for None.
DefaultValues ==
    [output |-> None, just_deps |-> FALSE, in_order |-> FALSE, verbosity |-> 1]

IsPrefix(p, s) == Len(p) <= Len(s) /\ SubSeq(s, 1, Len(p)) = p

\* optparse _match_abbrev: an exact name, or the only name the text starts
MatchLong(text) ==
    LET exact == {n \in DOMAIN LongNames : LongNames[n] = text}
        starts == {n \in DOMAIN LongNames : IsPrefix(text, LongNames[n])}
    IN IF exact # {} THEN CHOOSE n \in exact : TRUE
       ELSE IF Cardinality(starts) = 1 THEN CHOOSE n \in starts : TRUE
       ELSE IF starts = {} THEN "no such option"
       ELSE "ambiguous option"

\* the digits of int(), by value; a letter counts in either case
Digits ==
    <<"0", "1", "2", "3", "4", "5", "6", "7", "8", "9", "a", "b", "c", "d", "e", "f">>

Capitals == <<"A", "B", "C", "D", "E", "F">>

IsDigit(c) == (\E d \in 1..16 : Digits[d] = c) \/ (\E d \in 1..6 : Capitals[d] = c)

DigitVal(c) ==
    IF \E d \in 1..16 : Digits[d] = c
    THEN (CHOOSE d \in 1..16 : Digits[d] = c) - 1
    ELSE (CHOOSE d \in 1..6 : Capitals[d] = c) + 9

RECURSIVE DigitsValue(_, _, _)
DigitsValue(ds, radix, acc) ==
    IF ds = <<>> THEN acc
    ELSE DigitsValue(Tail(ds), radix, acc * radix + DigitVal(Head(ds)))

\* the blanks int() allows around a number: the characters of Whitespace
\* but U+001C to U+001F
IntSpace == {"\t", "\n", "", "\f", "\r", " ", "", " "}

\* the letters of the prefix int() allows after a "0" for the base
BasePrefix(base) ==
    IF base = 16 THEN {"x", "X"}
    ELSE IF base = 8 THEN {"o", "O"}
    ELSE IF base = 2 THEN {"b", "B"}
    ELSE {}

\* a sign at the head of s taken off
Unsigned(s) == IF s # <<>> /\ s[1] \in {"-", "+"} THEN Tail(s) ELSE s

\* the prefix of the base at the head of s taken off, with one "_" after it
Unprefixed(s, base) ==
    IF Len(s) >= 2 /\ s[1] = "0" /\ s[2] \in BasePrefix(base)
    THEN IF Len(s) >= 3 /\ s[3] = "_" THEN SubSeq(s, 4, Len(s)) ELSE SubSeq(s, 3, Len(s))
    ELSE s

\* digits below the base with single "_" between them
ValidBody(body, base) ==
    /\ body # <<>>
    /\ \A k \in 1..Len(body) :
          \/ body[k] = "_"
          \/ IsDigit(body[k]) /\ DigitVal(body[k]) < base
    /\ body[1] # "_"
    /\ body[Len(body)] # "_"
    /\ \A k \in 1..(Len(body) - 1) : ~(body[k] = "_" /\ body[k + 1] = "_")

\* Python: int(str, base) for base 2, 8, 10 or 16.  Blanks around, one sign,
\* the prefix of the base, then the digits; ~ok: ValueError
IntOfString(str, base) ==
    LET s1 == LStrip(str, IntSpace)
        body == RStrip(Unprefixed(Unsigned(s1), base), IntSpace)
    IN IF ~ValidBody(body, base) THEN [ok |-> FALSE, value |-> 0]
       ELSE IF s1[1] = "-"
            THEN [ok |-> TRUE,
                  value |-> 0 - DigitsValue(SelectSeq(body, LAMBDA c : c # "_"), base, 0)]
            ELSE [ok |-> TRUE,
                  value |-> DigitsValue(SelectSeq(body, LAMBDA c : c # "_"), base, 0)]

\* type="int", optparse _parse_int: the first two characters choose the
\* radix, "0x" 16, "0b" 2 (and the prefix is cut off, "0" left when nothing
\* follows), a leading "0" 8, anything else 10; then int(val, radix)
ParseInt(val) ==
    LET lead == IF Len(val) >= 2 THEN SubSeq(val, 1, 2) ELSE val IN
    IF lead \in {<<"0", "x">>, <<"0", "X">>} THEN IntOfString(val, 16)
    ELSE IF lead \in {<<"0", "b">>, <<"0", "B">>}
         THEN IntOfString(IF Len(val) > 2 THEN SubSeq(val, 3, Len(val)) ELSE <<"0">>, 2)
    ELSE IF val # <<>> /\ val[1] = "0" THEN IntOfString(val, 8)
    ELSE IntOfString(val, 10)

ParseFail(st, why) == [st EXCEPT !.status = "exit2", !.error = why]

\* a count that starts from 0 and forgets the value held
CountFromZero(v) == 0 + 1

\* the "count" action: values.ensure_value(dest, 0) + 1; the dest is never
\* None here, set_defaults made it 1
CountVerbosity(v) == v + 1

\* a quiet level below the lowest level
QuietBelowZero == 0 - 1

\* "store_const" with const=0
QuietVerbosity == 0

\* Option.process: convert the value, then take the option's action
Process(opt, value, st) ==
    CASE opt = "o" -> [st EXCEPT !.values.output = value]
      [] opt = "deps" -> [st EXCEPT !.values.just_deps = TRUE]
      [] opt = "inorder" -> [st EXCEPT !.values.in_order = TRUE]
      [] opt = "q" -> [st EXCEPT !.values.verbosity = QuietVerbosity]
      [] opt = "v" -> [st EXCEPT !.values.verbosity = CountVerbosity(@)]
      [] opt = "verbosity" ->
            IF ~ParseInt(value).ok
            THEN ParseFail(st, "invalid integer value")
            ELSE [st EXCEPT !.values.verbosity = ParseInt(value).value]
      [] opt = "help" -> [st EXCEPT !.status = "exit0"]

\* _process_long_opt: the head of rargs starts with "--"
LongOpt(st) ==
    LET arg == Head(st.rargs)
        rest == Tail(st.rargs)
        eq == Find(arg, <<"=">>)
        had == eq > 0
        text == IF had THEN SubSeq(arg, 1, eq - 1) ELSE arg
        rargs1 == IF had THEN <<SubSeq(arg, eq + 1, Len(arg))>> \o rest ELSE rest
        opt == MatchLong(text)
    IN IF opt \notin DOMAIN LongNames THEN ParseFail(st, opt)
       ELSE IF TakesValue(opt)
            THEN IF rargs1 = <<>> THEN ParseFail(st, "requires 1 argument")
                 ELSE Process(opt, Head(rargs1), [st EXCEPT !.rargs = Tail(rargs1)])
            ELSE IF had THEN ParseFail(st, "does not take a value")
                 ELSE Process(opt, None, [st EXCEPT !.rargs = rargs1])

\* _process_short_opts: the letters of a "-xyz" cluster, from index k on;
\* st.rargs is already without the cluster
RECURSIVE ShortOpts(_, _, _)
ShortOpts(st, arg, k) ==
    IF st.status # "run" \/ k > Len(arg) THEN st
    ELSE IF arg[k] \notin DOMAIN ShortNames THEN ParseFail(st, "no such option")
    ELSE LET opt == ShortNames[arg[k]] IN
         IF TakesValue(opt)
         THEN IF k < Len(arg)
              THEN Process(opt, SubSeq(arg, k + 1, Len(arg)), st)
              ELSE IF st.rargs = <<>> THEN ParseFail(st, "requires 1 argument")
                   ELSE Process(opt, Head(st.rargs), [st EXCEPT !.rargs = Tail(@)])
         ELSE ShortOpts(Process(opt, None, st), arg, k + 1)

\* _process_args: options and positionals may be interspersed, "--" ends them
RECURSIVE ParseLoop(_)
ParseLoop(st) ==
    IF st.status # "run" THEN st
    ELSE IF st.rargs = <<>> THEN [st EXCEPT !.status = "ok"]
    ELSE LET arg == Head(st.rargs) IN
         IF arg = <<"-", "-">>
         THEN [st EXCEPT !.status = "ok", !.rargs = Tail(@)]
         ELSE IF Len(arg) >= 2 /\ arg[1] = "-" /\ arg[2] = "-"
              THEN ParseLoop(LongOpt(st))
         ELSE IF Len(arg) > 1 /\ arg[1] = "-"
              THEN ParseLoop(ShortOpts([st EXCEPT !.rargs = Tail(@)], arg, 2))
         ELSE ParseLoop([st EXCEPT !.largs = Append(@, arg), !.rargs = Tail(@)])

\* parser.parse_args(args): [status, values, pos, error]
parse_args(args) ==
    LET st == ParseLoop([rargs |-> args, largs |-> <<>>, values |-> DefaultValues,
                         status |-> "run", error |-> None])
    IN [status |-> st.status, values |-> st.values,
        pos |-> st.largs \o st.rargs, error |-> st.error]

(***************************************************************************)
(* process_args                                                            *)
(***************************************************************************)
\* a filter that removes only the tokens that went into the mapping
FilterMappedOnly(args) ==
    SelectSeq(args, LAMBDA a : ~(Contains(a, REMAP) /\ MapToken(EmptyDict, a) # EmptyDict))

\* [a for a in argv if REMAP not in a]
FilterArgs(args) == SelectSeq(args, LAMBDA a : ~Contains(a, REMAP))

CliTokens ==
    { <<"-", "q">>, <<"-", "v">>, <<"-", "i">>, <<"-", "o">>, <<"-", "q", "v">>,
      <<"-", "h">>,
      LongNames.deps, LongNames.inorder, LongNames.verbosity,
      <<"-", "-">>, <<"p">>, <<"4">>, <<"1", "_", "0">>, <<"0", "o", "7">>,
      <<"a">> \o REMAP \o <<"b">>,
      <<"\t">> \o REMAP \o <<"b">>,
      <<"_", "a">> \o REMAP \o <<"b">>,
      REMAP \o <<"b">>,
      <<"a">> \o REMAP \o <<"b">> \o REMAP \o <<"c">> }

CliArgvs == SeqsUpTo(CliTokens, MaxArgs)

InOrderNotice ==
    "xacro: in-order processing became default in ROS Melodic. You can drop the option."

PositionalError == "expected exactly one input file as argument"

Init ==
    /\ argv \in CliArgvs
    /\ require_input \in BOOLEAN
    /\ pc = "start"
    /\ mappings = EmptyDict
    /\ filtered_args = <<>>
    /\ options = DefaultValues
    /\ pos_args = <<>>
    /\ stderr = <<>>
    /\ errtoken = <<>>
    /\ result = None
    /\ largv = <<>> /\ li = 1 /\ lmappings = EmptyDict /\ lpc = "rest" /\ lerr = <<>>
    /\ concurrent = FALSE /\ stdout = Orig /\ streams = <<>>
    /\ cpc = <<>> /\ old = <<>> /\ written = <<>> /\ captured = <<>>

\* lines 177-179, load_mappings returns
LoadOk ==
    /\ pc = "start"
    /\ load_mappings(argv).ok
    /\ mappings' = load_mappings(argv).mappings
    /\ filtered_args' = FilterArgs(argv)
    /\ pc' = "parse"
    /\ UNCHANGED <<argv, require_input, options, pos_args, stderr, errtoken, result>>
    /\ UNCHANGED <<remapVars, capVars>>

\* lines 177-178, load_mappings raises RuntimeError, which is not the
\* ImportError the handler of line 180 catches: it leaves process_args
LoadFail ==
    /\ pc = "start"
    /\ ~load_mappings(argv).ok
    /\ errtoken' = load_mappings(argv).err
    /\ pc' = "RuntimeError"
    /\ UNCHANGED <<argv, require_input, mappings, filtered_args, options, pos_args,
                   stderr, result>>
    /\ UNCHANGED <<remapVars, capVars>>

\* lines 185-186, parse_args returns
ParseOk ==
    /\ pc = "parse"
    /\ parse_args(filtered_args).status = "ok"
    /\ options' = parse_args(filtered_args).values
    /\ pos_args' = parse_args(filtered_args).pos
    /\ pc' = "in_order"
    /\ UNCHANGED <<argv, require_input, mappings, filtered_args, stderr, errtoken, result>>
    /\ UNCHANGED <<remapVars, capVars>>

\* lines 185-186, parse_args ends in parser.error: usage, message, exit status 2
ParseExit ==
    /\ pc = "parse"
    /\ parse_args(filtered_args).status = "exit2"
    /\ \E isatty \in BOOLEAN :
          stderr' = stderr \o ParserError(parse_args(filtered_args).error, isatty)
    /\ pc' = "exit2"
    /\ UNCHANGED <<argv, require_input, mappings, filtered_args, options, pos_args,
                   errtoken, result>>
    /\ UNCHANGED <<remapVars, capVars>>

\* lines 185-186, -h or --help: optparse prints the help and exits with status 0
ParseHelp ==
    /\ pc = "parse"
    /\ parse_args(filtered_args).status = "exit0"
    /\ pc' = "exit0"
    /\ UNCHANGED <<argv, require_input, mappings, filtered_args, options, pos_args,
                   stderr, errtoken, result>>
    /\ UNCHANGED <<remapVars, capVars>>

\* lines 187-191: the notice when the flag was given, then in_order = True
InOrder ==
    /\ pc = "in_order"
    /\ \E isatty \in BOOLEAN :
          LET m == message(InOrderNotice, NoKwargs, isatty) IN
          IF options.in_order /\ ~m.ok
          THEN /\ pc' = "TypeError"
               /\ UNCHANGED <<options, stderr>>
          ELSE /\ stderr' = IF options.in_order THEN Append(stderr, m.text) ELSE stderr
               /\ options' = [options EXCEPT !.in_order = TRUE]
               /\ pc' = "check"
    /\ UNCHANGED <<argv, require_input, mappings, filtered_args, pos_args, errtoken, result>>
    /\ UNCHANGED <<remapVars, capVars>>

\* lines 193-195: the count differs and the caller requires input
CheckExit ==
    /\ pc = "check"
    /\ Len(pos_args) # 1 /\ require_input
    /\ \E isatty \in BOOLEAN : stderr' = stderr \o ParserError(PositionalError, isatty)
    /\ pc' = "exit2"
    /\ UNCHANGED <<argv, require_input, mappings, filtered_args, options, pos_args,
                   errtoken, result>>
    /\ UNCHANGED <<remapVars, capVars>>

\* lines 193-200: pos_args = [None] when the count differs, then the return
Return ==
    /\ pc = "check"
    /\ ~(Len(pos_args) # 1 /\ require_input)
    /\ pos_args' = IF Len(pos_args) # 1 THEN <<None>> ELSE pos_args
    /\ result' = [options |-> [output |-> options.output,
                               just_deps |-> options.just_deps,
                               in_order |-> options.in_order,
                               verbosity |-> options.verbosity,
                               mappings |-> mappings],
                  input |-> pos_args'[1]]
    /\ pc' = "returned"
    /\ UNCHANGED <<argv, require_input, mappings, filtered_args, options, stderr, errtoken>>
    /\ UNCHANGED <<remapVars, capVars>>

Next ==
    LoadOk \/ LoadFail \/ ParseOk \/ ParseExit \/ ParseHelp \/ InOrder \/ CheckExit \/ Return

(***************************************************************************)
(* load_mappings called on its own: the for-loop, one token per step.      *)
(***************************************************************************)
SourceSides == SeqsUpTo({"_", "a", "\t"}, MaxSideLen)

RemapTokens ==
    {s \o REMAP \o <<"b">> : s \in SourceSides}
    \cup { <<"a">> \o REMAP \o <<"c">>,
           <<"a">> \o REMAP,
           <<"a">> \o REMAP \o <<" ">>,
           <<" ">> \o REMAP \o <<"b">>,
           <<" ", "a">> \o REMAP \o <<"b", " ">>,
           REMAP,
           <<"a">> \o REMAP \o <<"b">> \o REMAP \o <<"c">>,
           <<"a">> \o REMAP \o REMAP,
           <<"p">> }

RemapArgvs == SeqsUpTo(RemapTokens, MaxRemapArgs)

InitRemap ==
    /\ largv \in RemapArgvs
    /\ li = 1
    /\ lmappings = EmptyDict
    /\ lpc = "loop"
    /\ lerr = <<>>
    /\ argv = <<>> /\ require_input = TRUE /\ pc = "rest"
    /\ mappings = EmptyDict /\ filtered_args = <<>> /\ options = DefaultValues
    /\ pos_args = <<>> /\ stderr = <<>> /\ errtoken = <<>> /\ result = None
    /\ concurrent = FALSE /\ stdout = Orig /\ streams = <<>>
    /\ cpc = <<>> /\ old = <<>> /\ written = <<>> /\ captured = <<>>

\* `if REMAP in arg` is false: the token is skipped
LoadSkip ==
    /\ lpc = "loop" /\ li <= Len(largv)
    /\ ~Contains(largv[li], REMAP)
    /\ li' = li + 1
    /\ UNCHANGED <<largv, lmappings, lpc, lerr>>
    /\ UNCHANGED <<cliVars, capVars>>

\* the token splits into two parts: it is inserted, or ignored
LoadMap ==
    /\ lpc = "loop" /\ li <= Len(largv)
    /\ Contains(largv[li], REMAP) /\ ~UnpackFails(largv[li])
    /\ lmappings' = MapToken(lmappings, largv[li])
    /\ li' = li + 1
    /\ UNCHANGED <<largv, lpc, lerr>>
    /\ UNCHANGED <<cliVars, capVars>>

\* the unpacking fails: RuntimeError("Invalid remapping argument '%s'\n" % arg)
LoadRaise ==
    /\ lpc = "loop" /\ li <= Len(largv)
    /\ TokenRaises(largv[li])
    /\ lpc' = "RuntimeError"
    /\ lerr' = largv[li]
    /\ UNCHANGED <<largv, li, lmappings>>
    /\ UNCHANGED <<cliVars, capVars>>

\* `return mappings`
LoadReturn ==
    /\ lpc = "loop" /\ li > Len(largv)
    /\ lpc' = "returned"
    /\ UNCHANGED <<largv, li, lmappings, lerr>>
    /\ UNCHANGED <<cliVars, capVars>>

NextRemap == LoadSkip \/ LoadMap \/ LoadRaise \/ LoadReturn

(***************************************************************************)
(* process, the capturing entrypoint.  An invocation is one call of        *)
(* process(); stream 0 is the stream bound to sys.stdout before the first  *)
(* call, stream i is the StringIO() that invocation i creates.  The text   *)
(* an engine call writes is a sequence of its invocation's number.         *)
(***************************************************************************)
Calls == 1..MaxCalls

EmptyStream == [buf |-> <<>>, pos |-> 0]

\* stream.write(text) of one character: at the cursor, which advances
StreamWrite(st, ch) ==
    [buf |-> IF st.pos < Len(st.buf)
             THEN [st.buf EXCEPT ![st.pos + 1] = ch]
             ELSE Append(st.buf, ch),
     pos |-> st.pos + 1]

\* stream.seek(0)
StreamSeek0(st) == [st EXCEPT !.pos = 0]

\* stream.read(): the text from the cursor to the end
StreamRead(st) == SubSeq(st.buf, st.pos + 1, Len(st.buf))

\* no invocation is between its first and its last step
NoneInProgress == \A j \in Calls : cpc[j] \in {"idle", "returned", "raised"}

InitCapture ==
    /\ concurrent \in BOOLEAN
    /\ stdout = Orig
    /\ streams = [k \in {Orig} \cup Calls |-> EmptyStream]
    /\ cpc = [i \in Calls |-> "idle"]
    /\ old = [i \in Calls |-> Orig]
    /\ written = [i \in Calls |-> 0]
    /\ captured = [i \in Calls |-> <<>>]
    /\ largv = <<>> /\ li = 1 /\ lmappings = EmptyDict /\ lpc = "rest" /\ lerr = <<>>
    /\ argv = <<>> /\ require_input = TRUE /\ pc = "rest"
    /\ mappings = EmptyDict /\ filtered_args = <<>> /\ options = DefaultValues
    /\ pos_args = <<>> /\ stderr = <<>> /\ errtoken = <<>> /\ result = None

\* line 50, right-hand side: sys.stdout is read and StringIO() is created
SwapLoad(i) ==
    /\ cpc[i] = "idle"
    /\ concurrent \/ NoneInProgress
    /\ old' = [old EXCEPT ![i] = stdout]
    /\ cpc' = [cpc EXCEPT ![i] = "swap"]
    /\ UNCHANGED <<concurrent, stdout, streams, written, captured>>
    /\ UNCHANGED <<remapVars, cliVars>>

\* the stream process() binds to sys.stdout at line 50
NewSink(i) == i

\* line 50, the stores: old, sys.stdout = ...
SwapStore(i) ==
    /\ cpc[i] = "swap"
    /\ stdout' = NewSink(i)
    /\ cpc' = [cpc EXCEPT ![i] = "engine"]
    /\ UNCHANGED <<concurrent, streams, old, written, captured>>
    /\ UNCHANGED <<remapVars, cliVars>>

RECURSIVE SumTo(_, _)
SumTo(f, n) == IF n = 0 THEN 0 ELSE f[n] + SumTo(f, n - 1)

\* the writes all engine calls have made so far
TotalWritten == SumTo(written, MaxCalls)

\* the engine, called with output=None, writes to the current sys.stdout
EngineWrite(i) ==
    /\ cpc[i] = "engine"
    /\ TotalWritten < MaxWrites
    /\ streams' = [streams EXCEPT ![stdout] = StreamWrite(@, i)]
    /\ written' = [written EXCEPT ![i] = @ + 1]
    /\ UNCHANGED <<concurrent, stdout, cpc, old, captured>>
    /\ UNCHANGED <<remapVars, cliVars>>

\* lines 53-62: the call returns
EngineReturn(i) ==
    /\ cpc[i] = "engine"
    /\ cpc' = [cpc EXCEPT ![i] = "seek"]
    /\ UNCHANGED <<concurrent, stdout, streams, old, written, captured>>
    /\ UNCHANGED <<remapVars, cliVars>>

\* lines 53-62: the call raises; no handler, process() is left at once
EngineRaise(i) ==
    /\ cpc[i] = "engine"
    /\ cpc' = [cpc EXCEPT ![i] = "raised"]
    /\ UNCHANGED <<concurrent, stdout, streams, old, written, captured>>
    /\ UNCHANGED <<remapVars, cliVars>>

\* line 63: sys.stdout.seek(0), on whatever sys.stdout is bound to now
Seek(i) ==
    /\ cpc[i] = "seek"
    /\ streams' = [streams EXCEPT ![stdout] = StreamSeek0(@)]
    /\ cpc' = [cpc EXCEPT ![i] = "read"]
    /\ UNCHANGED <<concurrent, stdout, old, written, captured>>
    /\ UNCHANGED <<remapVars, cliVars>>

\* line 63 on the original stream when it is a terminal or a pipe: seek raises
SeekRaise(i) ==
    /\ cpc[i] = "seek"
    /\ stdout = Orig
    /\ cpc' = [cpc EXCEPT ![i] = "raised"]
    /\ UNCHANGED <<concurrent, stdout, streams, old, written, captured>>
    /\ UNCHANGED <<remapVars, cliVars>>

\* line 64: result = sys.stdout.read()
Read(i) ==
    /\ cpc[i] = "read"
    /\ stdout # Orig
    /\ captured' = [captured EXCEPT ![i] = StreamRead(streams[stdout])]
    /\ streams' = [streams EXCEPT ![stdout] = [buf |-> @.buf, pos |-> Len(@.buf)]]
    /\ cpc' = [cpc EXCEPT ![i] = "restore"]
    /\ UNCHANGED <<concurrent, stdout, old, written>>
    /\ UNCHANGED <<remapVars, cliVars>>

\* line 64 on the original stream, which is not readable: read raises
ReadRaise(i) ==
    /\ cpc[i] = "read"
    /\ stdout = Orig
    /\ cpc' = [cpc EXCEPT ![i] = "raised"]
    /\ UNCHANGED <<concurrent, stdout, streams, old, written, captured>>
    /\ UNCHANGED <<remapVars, cliVars>>

\* a restore that binds the stream bound at the moment, the invocation's sink
RestoreCurrent(i) == NewSink(i)

\* the stream line 67 binds to sys.stdout
RestoreTarget(i) == old[i]

\* lines 67-68: sys.stdout = old; return result
Restore(i) ==
    /\ cpc[i] = "restore"
    /\ stdout' = RestoreTarget(i)
    /\ cpc' = [cpc EXCEPT ![i] = "returned"]
    /\ UNCHANGED <<concurrent, streams, old, written, captured>>
    /\ UNCHANGED <<remapVars, cliVars>>

NextCapture ==
    \E i \in Calls :
        \/ SwapLoad(i) \/ SwapStore(i)
        \/ EngineWrite(i) \/ EngineReturn(i) \/ EngineRaise(i)
        \/ Seek(i) \/ SeekRaise(i) \/ Read(i) \/ ReadRaise(i)
        \/ Restore(i)

(***************************************************************************)
(* The specifications.  Each starts the variables of the other parts at    *)
(* rest values its actions never change.                                   *)
(***************************************************************************)
\* process_args
Spec == Init /\ [][Next]_vars

\* load_mappings on its own
SpecRemap == InitRemap /\ [][NextRemap]_vars

\* process
SpecCapture == InitCapture /\ [][NextCapture]_vars

(***************************************************************************)
(* Vocabulary of the properties, defined on the tokens themselves and not  *)
(* through the operators that model the code.                              *)
(***************************************************************************)
\* indices at which ":=" starts in a token
DelimiterAt(t) == {i \in 1..(Len(t) - 1) : t[i] = ":" /\ t[i + 1] = "="}

HasDelimiter(t) == DelimiterAt(t) # {}

FirstDelimiter(t) == CHOOSE i \in DelimiterAt(t) : \A j \in DelimiterAt(t) : i <= j

\* s without its leading and trailing whitespace
Trimmed(s) ==
    LET inked == {i \in 1..Len(s) : s[i] \notin Whitespace} IN
    IF inked = {} THEN <<>>
    ELSE SubSeq(s, CHOOSE i \in inked : \A j \in inked : i <= j,
                   CHOOSE i \in inked : \A j \in inked : j <= i)

\* the text before the first ":=" and the text after it, trimmed
SourceOf(t) == Trimmed(SubSeq(t, 1, FirstDelimiter(t) - 1))

DestinationOf(t) == Trimmed(SubSeq(t, FirstDelimiter(t) + 2, Len(t)))

\* a remap token one of whose sides is empty after trimming
EmptySided(t) == HasDelimiter(t) /\ (SourceOf(t) = <<>> \/ DestinationOf(t) = <<>>)

\* a remap token with two non-empty trimmed sides
TwoSided(t) == HasDelimiter(t) /\ SourceOf(t) # <<>> /\ DestinationOf(t) # <<>>

Ended == pc \in {"returned", "exit2", "exit0", "RuntimeError", "TypeError"}

\* load_mappings has returned to process_args
PastLoad == pc \in {"parse", "in_order", "check", "returned", "exit2", "exit0", "TypeError"}

\* parse_args has returned to process_args
PastParse == pc \in {"in_order", "check", "returned", "TypeError"}

TokQ == <<"-", "q">>
TokV == <<"-", "v">>
TokI == <<"-", "i">>
TokO == <<"-", "o">>
TokQV == <<"-", "q", "v">>
TokEnd == <<"-", "-">>
TokP == <<"p">>
Tok4 == <<"4">>
Tok10 == <<"1", "_", "0">>
Tok7 == <<"0", "o", "7">>

(***************************************************************************)
(* C1  An argument vector with a remap token one of whose sides is empty   *)
(* after trimming makes process_args fail with the invalid-remapping       *)
(* RuntimeError: process_args ends there and returns nothing.              *)
(* The code lets such a token through: this is violated.                   *)
(***************************************************************************)
C1_EmptySideIsFatal ==
    (Ended /\ \E k \in DOMAIN argv : EmptySided(argv[k])) => pc = "RuntimeError"

(***************************************************************************)
(* C2  On a vector that is otherwise valid (the remaps load, the flags     *)
(* parse, exactly one positional), process_args ends by returning options  *)
(* with in_order = TRUE, whether or not -i / --inorder was given.          *)
(* With the flag the notice raises TypeError: this is violated.            *)
(***************************************************************************)
ValidVector ==
    /\ load_mappings(argv).ok
    /\ parse_args(FilterArgs(argv)).status = "ok"
    /\ Len(parse_args(FilterArgs(argv)).pos) = 1

C2_InOrderFlagNonFatal ==
    (Ended /\ ValidVector) => (pc = "returned" /\ result.options.in_order = TRUE)

(***************************************************************************)
(* C5  The verbosity is the left-to-right fold over the flags of the       *)
(* filtered vector: it starts at 1, -q sets it to 0, each -v adds 1 to the *)
(* value held at that point, --verbosity LEVEL sets it to LEVEL.  So       *)
(* "-q -v" gives 1, "-v -q" gives 0 and a lone "-v" gives 2.               *)
(***************************************************************************)
\* the number a LEVEL token of the model's vectors writes: "4" is 4, "1_0"
\* is ten and "0o7" is seven
LevelOf(t) == CASE t = Tok4 -> 4 [] t = Tok10 -> 10 [] t = Tok7 -> 7

\* the fold, on the tokens: a flag, the value a flag consumes, or a positional
RECURSIVE FlagFold(_, _)
FlagFold(args, v) ==
    IF args = <<>> \/ Head(args) = TokEnd THEN v
    ELSE IF Head(args) = TokQ THEN FlagFold(Tail(args), 0)
    ELSE IF Head(args) = TokV THEN FlagFold(Tail(args), v + 1)
    ELSE IF Head(args) = TokQV THEN FlagFold(Tail(args), 0 + 1)
    ELSE IF Head(args) = LongNames.verbosity /\ Len(args) >= 2
         THEN FlagFold(Tail(Tail(args)), LevelOf(args[2]))
    ELSE IF Head(args) = TokO /\ Len(args) >= 2 THEN FlagFold(Tail(Tail(args)), v)
    ELSE FlagFold(Tail(args), v)

C5_VerbosityIsFold ==
    /\ PastParse => options.verbosity = FlagFold(filtered_args, 1)
    /\ pc = "returned" => result.options.verbosity = FlagFold(filtered_args, 1)
    /\ (PastParse /\ filtered_args = <<TokQ, TokV>>) => options.verbosity = 1
    /\ (PastParse /\ filtered_args = <<TokV, TokQ>>) => options.verbosity = 0
    /\ (PastParse /\ filtered_args = <<TokV>>) => options.verbosity = 2

\* "-q -v p" has returned with verbosity 1
C5_Witness ==
    /\ pc = "returned"
    /\ argv = <<TokQ, TokV, TokP>>
    /\ result.options.verbosity = 1

(***************************************************************************)
(* C6, as claimed: the verbosity of the returned options is in 0..4.       *)
(* Nothing checks the range: "--verbosity 4 -v" returns 5.                 *)
(***************************************************************************)
C6_VerbosityIn0to4 == pc = "returned" => result.options.verbosity \in 0..4

(***************************************************************************)
(* C6, amended: the verbosity of the returned options is an integer that   *)
(* is not confined to 0..4.  With no negative LEVEL it is at least 0, and  *)
(* it is at most the largest of 1 and the LEVELs given plus the number of  *)
(* v letters among the flags.                                              *)
(***************************************************************************)
\* the LEVELs a vector can give: its tokens that read as a number
LevelsIn(args) == {ParseInt(args[k]).value : k \in {j \in DOMAIN args : ParseInt(args[j]).ok}}

\* the v letters of the vector's short flags
LettersV(args) ==
    Cardinality(UNION {{<<k, i>> : i \in {j \in DOMAIN args[k] : args[k][j] = "v"}} :
                          k \in {m \in DOMAIN args : args[m] # LongNames.verbosity}})

C6_VerbosityBounds ==
    (pc = "returned" /\ \A n \in LevelsIn(filtered_args) : n >= 0) =>
        /\ result.options.verbosity \in Int
        /\ result.options.verbosity >= 0
        /\ \E top \in LevelsIn(filtered_args) \cup {1} :
              result.options.verbosity <= top + LettersV(filtered_args)

\* "--verbosity 4 -v" has returned 5
C6_Witness ==
    /\ pc = "returned"
    /\ argv = <<LongNames.verbosity, Tok4, TokV>>
    /\ result.options.verbosity = 5

(***************************************************************************)
(* C7  Once the remaps are loaded and the flags parsed, process_args with  *)
(* require_input returns (options, p) exactly when one positional p is     *)
(* left, and for any other count ends in the usage error (exit status 2)   *)
(* and returns nothing; without require_input a count other than one       *)
(* returns a null input.                                                   *)
(* A vector with -i ends in the TypeError of C2 instead: this is violated. *)
(***************************************************************************)
C7_PositionalCardinality ==
    (Ended /\ load_mappings(argv).ok /\ parse_args(FilterArgs(argv)).status = "ok") =>
        LET pos == parse_args(FilterArgs(argv)).pos IN
        IF Len(pos) = 1 THEN pc = "returned" /\ result.input = pos[1]
        ELSE IF require_input THEN pc = "exit2"
        ELSE pc = "returned" /\ result.input = None

(***************************************************************************)
(* C8  The list handed to the flag parser is exactly the subsequence of    *)
(* the raw vector made of the tokens without ":=", in their original       *)
(* order; every token with ":=" is gone, parameter assignments included.   *)
(***************************************************************************)
PlainIndices == {k \in DOMAIN argv : ~HasDelimiter(argv[k])}

\* the j-th smallest index of a token without ":="
PlainIndex(j) ==
    CHOOSE k \in PlainIndices : Cardinality({m \in PlainIndices : m <= k}) = j

C8_FilteredIsPlainSubsequence ==
    PastLoad =>
        /\ Len(filtered_args) = Cardinality(PlainIndices)
        /\ \A j \in DOMAIN filtered_args : filtered_args[j] = argv[PlainIndex(j)]
        /\ \A j \in DOMAIN filtered_args : ~HasDelimiter(filtered_args[j])

\* a parameter assignment between two plain tokens has been filtered out
C8_Witness ==
    /\ pc = "parse"
    /\ argv = <<TokQ, <<"_", "a", ":", "=", "b">>, TokP>>
    /\ filtered_args = <<TokQ, TokP>>
    /\ mappings = EmptyDict

(***************************************************************************)
(* The mapping load_mappings returns, said on the tokens.                  *)
(***************************************************************************)
\* the tokens of largv with two non-empty sides, by index
TwoSidedTokens == {k \in DOMAIN largv : TwoSided(largv[k])}

\* the last token among K with the source of token k
LastOf(K, k) ==
    CHOOSE m \in K :
        /\ SourceOf(largv[m]) = SourceOf(largv[k])
        /\ \A n \in K : SourceOf(largv[n]) = SourceOf(largv[k]) => n <= m

\* lmappings holds exactly the tokens of K, the last of each source winning
MappingIs(K) ==
    /\ DOMAIN lmappings = {SourceOf(largv[k]) : k \in K}
    /\ \A k \in K : lmappings[SourceOf(largv[k])] = DestinationOf(largv[LastOf(K, k)])

(***************************************************************************)
(* C3  A pair with two non-empty trimmed sides is left out of the mapping  *)
(* exactly when its source starts with one underscore: the first character *)
(* is "_" and the second, if there is one, is not "_" (the source "_"      *)
(* included); every other pair is inserted, the last of a source winning.  *)
(* The length guard of line 123 lets the source "_" into the mapping:      *)
(* this is violated.                                                       *)
(***************************************************************************)
OneLeadingUnderscore(src) == src[1] = "_" /\ (Len(src) >= 2 => src[2] # "_")

C3_LeftOutIffOneUnderscore ==
    lpc = "returned" =>
        MappingIs({k \in TwoSidedTokens : ~OneLeadingUnderscore(SourceOf(largv[k]))})

(***************************************************************************)
(* C4, as claimed: a token is split on the first ":=" only, so when every  *)
(* remap token has a non-empty source before its first ":=" and a          *)
(* non-empty destination after it, load_mappings returns and maps each     *)
(* source to that destination ("a:=b:=c" gives a -> "b:=c").               *)
(* The code splits on every ":=" and raises: this is violated.             *)
(***************************************************************************)
\* the tokens whose source does not start with "_": no reading leaves them out
PlainSourced == {k \in TwoSidedTokens : SourceOf(largv[k])[1] # "_"}

C4_SplitOnFirstDelimiter ==
    (lpc \in {"returned", "RuntimeError"}
        /\ \A k \in DOMAIN largv : HasDelimiter(largv[k]) => TwoSided(largv[k]))
    => (lpc = "returned"
        /\ \A k \in PlainSourced :
              lmappings[SourceOf(largv[k])] = DestinationOf(largv[LastOf(PlainSourced, k)]))

(***************************************************************************)
(* C4, amended: a token is split on every ":=".  load_mappings raises the  *)
(* invalid-remapping RuntimeError, naming the first such token, exactly    *)
(* when some token holds more than one ":=", and then returns no mapping;  *)
(* otherwise each token with one ":=" and two non-empty sides gives the    *)
(* trimmed text before it as source and the trimmed text after it as       *)
(* destination.                                                            *)
(***************************************************************************)
ManyDelimiters(t) == Cardinality(DelimiterAt(t)) >= 2

C4_ManyDelimitersRaise ==
    lpc \in {"returned", "RuntimeError"} =>
        /\ lpc = "RuntimeError" <=> \E k \in DOMAIN largv : ManyDelimiters(largv[k])
        /\ lpc = "RuntimeError" =>
              \E k \in DOMAIN largv :
                  /\ ManyDelimiters(largv[k]) /\ lerr = largv[k]
                  /\ \A j \in 1..(k - 1) : ~ManyDelimiters(largv[j])
        /\ lpc = "returned" =>
              \A k \in PlainSourced :
                  lmappings[SourceOf(largv[k])] = DestinationOf(largv[LastOf(PlainSourced, k)])

\* "a:=b:=c" has raised, after "a:=b" was read
C4_Witness ==
    /\ lpc = "RuntimeError"
    /\ largv = << <<"a", ":", "=", "b">>, <<"a", ":", "=", "b", ":", "=", "c">> >>
    /\ lerr = <<"a", ":", "=", "b", ":", "=", "c">>

(***************************************************************************)
(* C9  In single-threaded use, whenever no invocation of process() is in   *)
(* progress, sys.stdout is bound to the stream it was bound to before the  *)
(* first invocation, whether the engine returned or raised.                *)
(* An engine call that raises leaves the sink bound: this is violated.     *)
(***************************************************************************)
C9_StdoutRestoredOnEveryPath == (~concurrent /\ NoneInProgress) => stdout = Orig

(***************************************************************************)
(* C10  process() is not reentrant.  Once every invocation has returned,   *)
(* sys.stdout can be left bound to an in-memory sink, and a returned       *)
(* string can hold text written by another invocation's engine call; both  *)
(* happen only when invocations overlap, and the sink left bound is one    *)
(* that another invocation saved as its `old` and restored.                *)
(***************************************************************************)
AllReturned == \A i \in Calls : cpc[i] = "returned"

\* the string invocation i returned holds text written by another invocation
Misattributed(i) == \E n \in DOMAIN captured[i] : captured[i][n] # i

C10_NotReentrant ==
    AllReturned =>
        /\ stdout # Orig =>
              /\ concurrent
              /\ \E i \in Calls : old[i] = stdout /\ stdout # NewSink(i)
        /\ (\E i \in Calls : Misattributed(i)) => concurrent

\* both invocations have returned, sys.stdout is bound to a sink and one
\* invocation returned the other's text
C10_Witness ==
    /\ concurrent
    /\ AllReturned
    /\ stdout # Orig
    /\ \E i \in Calls : old[i] = stdout
    /\ \E i \in Calls : Misattributed(i)

====
